---- MODULE Spec2Model ----
(***************************************************************************)
(* Model of src/dsrc_imp.c: a two-vehicle 802.11p scenario run on the     *)
(* ns-3 discrete-event simulator.  main() builds two nodes, a UDP echo    *)
(* client on node 0 and a UDP echo server on node 1, installs a           *)
(* FlowMonitor, runs the simulator until 10 s and prints per-flow         *)
(* statistics.                                                            *)
(*                                                                         *)
(* The library calls of main() are modelled by what they do: the          *)
(* simulator executes events in (timestamp, uid) order, applications are  *)
(* started and stopped by events, the echo client sends MaxPackets        *)
(* datagrams one Interval apart, the echo server sends every datagram     *)
(* back, the FlowMonitor counts packets at the IP layer.  MAC access,     *)
(* frame airtime, ARP and retransmissions are not modelled: a frame that  *)
(* the loss model lets through arrives after the propagation delay.       *)
(*                                                                         *)
(* Time is ns-3's integer nanosecond clock, written <<tick, ns>> with     *)
(* ticks of 0.1 s, so that 10 s fit 32-bit integers.                        *)
(***************************************************************************)
EXTENDS Integers, Sequences, FiniteSets

VARIABLES
    now,            \* Simulator::Now()
    queue,          \* pending events of the simulator
    nextUid,        \* uid given to the next scheduled event
    stopped,        \* the simulator's stop flag, set by the Stop event
    pc,             \* position of main(): "run", "analysis", "report", "done"
    clientUp,       \* UdpEchoClient is started
    clientSent,     \* UdpEchoClient::m_sent
    clientSendEvent,\* uid of UdpEchoClient::m_sendEvent, 0 when none
    serverUp,       \* UdpEchoServer is started
    fmEnabled,      \* FlowMonitor::m_enabled
    classifier,     \* Ipv4FlowClassifier: sequence of <<src, dst>>, index = FlowId
    stats,          \* FlowMonitor::m_flowStats, indexed by FlowId
    tracked,        \* FlowMonitor::m_trackedPackets
    reportIdx,      \* position of the results loop in stats
    out,            \* what the results loop printed, one record per flow
    zeroDivs,       \* divisions by zero the results loop performed
    lastFired,      \* history: the event executed last
    sendLog,        \* history: times at which the client sent
    delayLog        \* history: per flow, the delays of the delivered packets

vars == <<now, queue, nextUid, stopped, pc, clientUp, clientSent, clientSendEvent,
          serverUp, fmEnabled, classifier, stats, tracked, reportIdx, out,
          zeroDivs, lastFired, sendLog, delayLog>>

simVars == <<now, queue, nextUid, stopped, clientUp, clientSent, clientSendEvent,
             serverUp, fmEnabled, classifier, tracked, lastFired, sendLog, delayLog>>

----------------------------------------------------------------------------
(* ns3::Time *)

TickNs == 100000000

TLt(a, b) == a[1] < b[1] \/ (a[1] = b[1] /\ a[2] < b[2])

TLe(a, b) == a = b \/ TLt(a, b)

TAdd(a, b) == <<a[1] + b[1] + ((a[2] + b[2]) \div TickNs), (a[2] + b[2]) % TickNs>>

\* a - b in nanoseconds; used for packet delays, which are far below 2 s
TDiffNs(a, b) == (a[1] - b[1]) * TickNs + (a[2] - b[2])

TZero == <<0, 0>>

----------------------------------------------------------------------------
(* Parameters set by main() *)

DistanceM == 50
TxPowerDbm == 23
PacketSize == 500
Interval == <<1, 0>>
SpeedMps == 20
FrequencyMHz == 5900
HeightMm == 1500
HeightAboveZMm == 1500
RxGainDb == 10
MaxPackets == 90
ServerStart == <<10, 0>>
ServerStop == <<100, 0>>
ClientStart == <<10, 0>>
ClientStop == <<100, 0>>
SimStopTime == <<100, 0>>
ObservationSeconds == 9

ClientNode == 0
ServerNode == 1

(* Library defaults of the objects main() creates *)
LightSpeed == 299792458
MinDistanceMm == 500
RxSensitivityDbm == -101
IpUdpHeaderBytes == 28
PeriodicCheckInterval == <<10, 0>>
MaxDelay == <<100, 0>>

----------------------------------------------------------------------------
(* ConstantVelocityMobilityModel: position = initial + velocity * t, in mm *)

Displacement(v, t) == v * 100 * t[1] + ((v * t[2]) \div 1000000)

PositionX(node, t) ==
    IF node = ClientNode
    THEN Displacement(SpeedMps, t)
    ELSE DistanceM * 1000 + Displacement(0 - SpeedMps, t)

Abs(x) == IF x < 0 THEN 0 - x ELSE x

DistanceMm(a, b, t) == Abs(PositionX(a, t) - PositionX(b, t))

----------------------------------------------------------------------------
(* Channel: constant-speed delay and two-ray ground loss *)

\* ConstantSpeedPropagationDelayModel: distance / c, in ns
PropDelay(distMm) == <<0, (distMm * 1000) \div (LightSpeed \div 1000)>>

\* 100 * 10^(j/10) for j = 0..9, rounded up
DbTable == <<100, 126, 159, 200, 252, 317, 399, 502, 631, 795>>

Mantissa(n) == Cardinality({j \in 1..10 : DbTable[j] <= n}) - 1

\* floor(10 * log10(n)) for n >= 1, to three significant digits of n
RECURSIVE Log10x10(_)
Log10x10(n) ==
    IF n >= 1000 THEN 10 + Log10x10(n \div 10)
    ELSE IF n >= 100 THEN 20 + Mantissa(n)
    ELSE IF n >= 10 THEN 10 + Mantissa(n * 10)
    ELSE Mantissa(n * 100)

LambdaUm == LightSpeed \div FrequencyMHz

AntennaMm == HeightMm + HeightAboveZMm

\* 4 * pi * ht * hr / lambda, in mm (pi = 355/113)
CrossoverMm == ((((AntennaMm * AntennaMm) \div LambdaUm) * 1000) * 1420) \div 113

\* 4 * pi * d / lambda
FriisRatio(distMm) == ((((distMm \div 10) * 10000) \div LambdaUm) * 1420) \div 113

\* TwoRayGroundPropagationLossModel::DoCalcRxPower, plus the receiver gain
RxPowerDbm(distMm) ==
    RxGainDb +
    (IF distMm <= MinDistanceMm THEN TxPowerDbm
     ELSE IF distMm <= CrossoverMm
          THEN TxPowerDbm - 2 * Log10x10(FriisRatio(distMm))
          ELSE TxPowerDbm
               + 2 * Log10x10((AntennaMm * AntennaMm) \div 1000000)
               - 4 * Log10x10(distMm \div 1000))

\* mutant of Receivable: the threshold comparison is reversed
ReceivableReversed(distMm) == RxPowerDbm(distMm) < RxSensitivityDbm

\* YansWifiPhy: a frame below the receive sensitivity is not received
Receivable(distMm) == RxPowerDbm(distMm) >= RxSensitivityDbm

----------------------------------------------------------------------------
(* Simulator events *)

Ev(t, uid, kind, node) ==
    [time |-> t, uid |-> uid, kind |-> kind, node |-> node,
     flow |-> 0, pid |-> 0, size |-> 0, txTime |-> TZero]

RxEv(t, uid, node, flow, pid, size, txTime) ==
    [time |-> t, uid |-> uid, kind |-> "Receive", node |-> node,
     flow |-> flow, pid |-> pid, size |-> size, txTime |-> txTime]

NoEvent == Ev(TZero, 0, "None", 0)

\* the scheduler's ordering key: timestamp, then uid (insertion order)
Earlier(a, b) == TLt(a.time, b.time) \/ (a.time = b.time /\ a.uid < b.uid)

\* mutant of NextEvent: equal timestamps are served last-in first-out
NextEventLifo ==
    CHOOSE e \in queue : \A f \in queue :
        f = e \/ TLt(e.time, f.time) \/ (e.time = f.time /\ e.uid > f.uid)

NextEvent == CHOOSE e \in queue : \A f \in queue : f = e \/ Earlier(e, f)

\* mutant of RunLoopGuard: the stop flag is not consulted
RunLoopGuardNoStop == queue # {}

\* DefaultSimulatorImpl::Run: while (!m_events->IsEmpty() && !m_stop)
RunLoopGuard == queue # {} /\ ~stopped

Firing(kind) == pc = "run" /\ RunLoopGuard /\ NextEvent.kind = kind

----------------------------------------------------------------------------
(* FlowMonitor and Ipv4FlowClassifier *)

KnownFlow(cls, src, dst) == \E i \in 1..Len(cls) : cls[i] = <<src, dst>>

\* Ipv4FlowClassifier::Classify: the id of the tuple, a new one when unseen
FlowId(cls, src, dst) ==
    IF KnownFlow(cls, src, dst)
    THEN CHOOSE i \in 1..Len(cls) : cls[i] = <<src, dst>>
    ELSE Len(cls) + 1

Classify(cls, src, dst) ==
    IF KnownFlow(cls, src, dst) THEN cls ELSE Append(cls, <<src, dst>>)

NewFlowStats ==
    [txPackets |-> 0, txBytes |-> 0, rxPackets |-> 0, rxBytes |-> 0,
     delaySum |-> 0, lostPackets |-> 0]

\* FlowMonitor::GetStatsForFlow: the record is created on first use
GetStatsForFlow(st, f) == IF f \in DOMAIN st THEN st ELSE Append(st, NewFlowStats)

\* FlowMonitor::ReportFirstTx
ReportFirstTx(st, f, bytes) ==
    [GetStatsForFlow(st, f) EXCEPT ![f].txPackets = @ + 1, ![f].txBytes = @ + bytes]

\* mutant of ReportLastRx: the delay is not accumulated
ReportLastRxNoDelay(st, f, bytes, delayNs) ==
    [GetStatsForFlow(st, f) EXCEPT ![f].rxPackets = @ + 1, ![f].rxBytes = @ + bytes]

\* FlowMonitor::ReportLastRx
ReportLastRx(st, f, bytes, delayNs) ==
    [GetStatsForFlow(st, f) EXCEPT ![f].rxPackets = @ + 1,
                                   ![f].rxBytes = @ + bytes,
                                   ![f].delaySum = @ + delayNs]

\* tracked packets last seen more than maxDelay ago
Expired(tr, t) == {p \in tr : TLt(TAdd(p.t, MaxDelay), t)}

\* FlowMonitor::CheckForLostPackets
LostCounted(st, tr, t) ==
    [f \in DOMAIN st |->
        [st[f] EXCEPT !.lostPackets = @ + Cardinality({p \in Expired(tr, t) : p.flow = f})]]

----------------------------------------------------------------------------
(* Sending a datagram from src to dst at time t: the IP-layer probe counts *)
(* it, the channel decides on delivery.                                    *)

\* Udp and Ipv4 headers are added to the payload before the probe and the
\* channel see the packet
IpSize(payload) == payload + IpUdpHeaderBytes

SentStats(st, cls, src, dst, size) ==
    IF fmEnabled THEN ReportFirstTx(st, FlowId(cls, src, dst), size) ELSE st

SentClassifier(cls, src, dst) == IF fmEnabled THEN Classify(cls, src, dst) ELSE cls

\* the packet id within its flow
PacketId(st, cls, src, dst) ==
    LET f == FlowId(cls, src, dst)
    IN  IF f \in DOMAIN st THEN st[f].txPackets + 1 ELSE 1

SentTracked(tr, st, cls, src, dst, t) ==
    IF fmEnabled
    THEN tr \cup {[flow |-> FlowId(cls, src, dst), pid |-> PacketId(st, cls, src, dst), t |-> t]}
    ELSE tr

\* YansWifiChannel::Send: the receive events a transmission schedules
ChannelSend(uid, st, cls, src, dst, size, t) ==
    LET d == DistanceMm(src, dst, t)
    IN  IF Receivable(d)
        THEN {RxEv(TAdd(t, PropDelay(d)), uid, dst, FlowId(cls, src, dst),
                   PacketId(st, cls, src, dst), size, t)}
        ELSE {}

----------------------------------------------------------------------------
(* State after main() has run up to Simulator::Run: the events scheduled  *)
(* by nodes.Create, flowmon.InstallAll and Simulator::Stop, in that order. *)

SetupEvents ==
    { Ev(TZero, 1, "NodeInitialize", ClientNode),
      Ev(TZero, 2, "NodeInitialize", ServerNode),
      Ev(TZero, 3, "FlowMonitorStart", 0),
      Ev(PeriodicCheckInterval, 4, "PeriodicCheck", 0),
      Ev(SimStopTime, 5, "SimulatorStop", 0) }

Init ==
    /\ now = TZero
    /\ queue = SetupEvents
    /\ nextUid = 6
    /\ stopped = FALSE
    /\ pc = "run"
    /\ clientUp = FALSE
    /\ clientSent = 0
    /\ clientSendEvent = 0
    /\ serverUp = FALSE
    /\ fmEnabled = FALSE
    /\ classifier = <<>>
    /\ stats = <<>>
    /\ tracked = {}
    /\ reportIdx = 0
    /\ out = <<>>
    /\ zeroDivs = 0
    /\ lastFired = NoEvent
    /\ sendLog = <<>>
    /\ delayLog = <<>>

----------------------------------------------------------------------------
(* Event handlers.  Each action is one iteration of Simulator::Run: it    *)
(* removes the next event, advances the clock to it and runs its handler. *)

AppStartTime(node) == IF node = ClientNode THEN ClientStart ELSE ServerStart

AppStopTime(node) == IF node = ClientNode THEN ClientStop ELSE ServerStop

\* Node::Initialize -> Application::DoInitialize: schedule start and stop
NodeInitialize ==
    /\ Firing("NodeInitialize")
    /\ LET e == NextEvent
       IN  /\ now' = e.time
           /\ lastFired' = e
           /\ queue' = (queue \ {e}) \cup
                  { Ev(TAdd(e.time, AppStartTime(e.node)), nextUid, "AppStart", e.node),
                    Ev(TAdd(e.time, AppStopTime(e.node)), nextUid + 1, "AppStop", e.node) }
           /\ nextUid' = nextUid + 2
    /\ UNCHANGED <<stopped, pc, clientUp, clientSent, clientSendEvent, serverUp,
                   fmEnabled, classifier, stats, tracked, reportIdx, out, zeroDivs,
                   sendLog, delayLog>>

\* FlowMonitor::StartRightNow
FlowMonitorStart ==
    /\ Firing("FlowMonitorStart")
    /\ LET e == NextEvent
       IN  /\ now' = e.time
           /\ lastFired' = e
           /\ queue' = queue \ {e}
    /\ fmEnabled' = TRUE
    /\ UNCHANGED <<nextUid, stopped, pc, clientUp, clientSent, clientSendEvent,
                   serverUp, classifier, stats, tracked, reportIdx, out, zeroDivs,
                   sendLog, delayLog>>

\* FlowMonitor::PeriodicCheckForLostPackets: check, then re-arm
PeriodicCheck ==
    /\ Firing("PeriodicCheck")
    /\ LET e == NextEvent
       IN  /\ now' = e.time
           /\ lastFired' = e
           /\ queue' = (queue \ {e}) \cup
                  { Ev(TAdd(e.time, PeriodicCheckInterval), nextUid, "PeriodicCheck", 0) }
           /\ stats' = LostCounted(stats, tracked, e.time)
           /\ tracked' = tracked \ Expired(tracked, e.time)
    /\ nextUid' = nextUid + 1
    /\ UNCHANGED <<stopped, pc, clientUp, clientSent, clientSendEvent, serverUp,
                   fmEnabled, classifier, reportIdx, out, zeroDivs, sendLog, delayLog>>

\* mutant of FirstSendDelay: the first datagram waits one interval
FirstSendDelayInterval == Interval

\* the delay of UdpEchoClient::StartApplication's first ScheduleTransmit
FirstSendDelay == TZero

\* Application start and stop events of the echo client and the echo server
ApplicationEvent ==
    /\ pc = "run" /\ RunLoopGuard /\ NextEvent.kind \in {"AppStart", "AppStop"}
    /\ LET e == NextEvent
           rest == queue \ {e}
       IN  /\ now' = e.time
           /\ lastFired' = e
           /\ IF e.kind = "AppStart" /\ e.node = ClientNode
              THEN \* UdpEchoClient::StartApplication: ScheduleTransmit(Seconds(0.))
                   /\ clientUp' = TRUE
                   /\ queue' = rest \cup
                          { Ev(TAdd(e.time, FirstSendDelay), nextUid, "ClientSend", ClientNode) }
                   /\ clientSendEvent' = nextUid
                   /\ nextUid' = nextUid + 1
                   /\ UNCHANGED serverUp
              ELSE IF e.kind = "AppStart"
              THEN \* UdpEchoServer::StartApplication
                   /\ serverUp' = TRUE
                   /\ queue' = rest
                   /\ UNCHANGED <<clientUp, clientSendEvent, nextUid>>
              ELSE IF e.node = ClientNode
              THEN \* UdpEchoClient::StopApplication: Simulator::Cancel(m_sendEvent)
                   /\ clientUp' = FALSE
                   /\ queue' = {x \in rest : x.uid # clientSendEvent}
                   /\ clientSendEvent' = 0
                   /\ UNCHANGED <<serverUp, nextUid>>
              ELSE \* UdpEchoServer::StopApplication
                   /\ serverUp' = FALSE
                   /\ queue' = rest
                   /\ UNCHANGED <<clientUp, clientSendEvent, nextUid>>
    /\ UNCHANGED <<stopped, pc, clientSent, fmEnabled, classifier, stats, tracked,
                   reportIdx, out, zeroDivs, sendLog, delayLog>>

\* mutant of MayRearm: the packet count is tested one early
MayRearmOffByOne(sent) == sent + 1 < MaxPackets

\* UdpEchoClient::Send re-arms while m_sent < m_count
MayRearm(sent) == sent < MaxPackets

\* UdpEchoClient::Send: send one datagram to the server, count it, re-arm
ClientSend ==
    /\ Firing("ClientSend")
    /\ LET e == NextEvent
           rx == ChannelSend(nextUid, stats, classifier, ClientNode, ServerNode,
                             IpSize(PacketSize), e.time)
           rearm == IF MayRearm(clientSent + 1)
                    THEN { Ev(TAdd(e.time, Interval), nextUid + 1, "ClientSend", ClientNode) }
                    ELSE {}
       IN  /\ now' = e.time
           /\ lastFired' = e
           /\ stats' = SentStats(stats, classifier, ClientNode, ServerNode, IpSize(PacketSize))
           /\ classifier' = SentClassifier(classifier, ClientNode, ServerNode)
           /\ tracked' = SentTracked(tracked, stats, classifier, ClientNode, ServerNode, e.time)
           /\ queue' = ((queue \ {e}) \cup rx) \cup rearm
           /\ clientSendEvent' = IF rearm = {} THEN 0 ELSE nextUid + 1
           /\ sendLog' = Append(sendLog, e.time)
    /\ clientSent' = clientSent + 1
    /\ nextUid' = nextUid + 2
    /\ UNCHANGED <<stopped, pc, clientUp, serverUp, fmEnabled, reportIdx, out,
                   zeroDivs, delayLog>>

\* mutant of EchoReplies: the server never answers
EchoRepliesNever(node, up) == FALSE

\* UdpEchoServer::HandleRead sends the datagram back to its sender
EchoReplies(node, up) == node = ServerNode /\ up

\* A frame arrives at a node: the IP-layer probe counts it; the echo server
\* sends it back (UdpEchoServer::HandleRead); the echo client only logs it.
Receive ==
    /\ Firing("Receive")
    /\ LET e == NextEvent
           delay == TDiffNs(e.time, e.txTime)
           st1 == IF fmEnabled THEN ReportLastRx(stats, e.flow, e.size, delay) ELSE stats
           \* the payload handed to the application, which the server sends back
           payload == e.size - IpUdpHeaderBytes
           tr1 == {p \in tracked : ~(p.flow = e.flow /\ p.pid = e.pid)}
       IN  /\ now' = e.time
           /\ lastFired' = e
           /\ delayLog' = Append(delayLog, <<e.flow, delay>>)
           /\ IF EchoReplies(e.node, serverUp)
              THEN /\ stats' = SentStats(st1, classifier, ServerNode, ClientNode, IpSize(payload))
                   /\ classifier' = SentClassifier(classifier, ServerNode, ClientNode)
                   /\ tracked' = SentTracked(tr1, st1, classifier, ServerNode, ClientNode, e.time)
                   /\ queue' = (queue \ {e}) \cup
                          ChannelSend(nextUid, st1, classifier, ServerNode, ClientNode,
                                      IpSize(payload), e.time)
                   /\ nextUid' = nextUid + 1
              ELSE /\ stats' = st1
                   /\ tracked' = tr1
                   /\ queue' = queue \ {e}
                   /\ UNCHANGED <<classifier, nextUid>>
    /\ UNCHANGED <<stopped, pc, clientUp, clientSent, clientSendEvent, serverUp,
                   fmEnabled, reportIdx, out, zeroDivs, sendLog>>

\* The event Simulator::Stop(Seconds(10.0)) scheduled: set the stop flag
SimulatorStop ==
    /\ Firing("SimulatorStop")
    /\ LET e == NextEvent
       IN  /\ now' = e.time
           /\ lastFired' = e
           /\ queue' = queue \ {e}
    /\ stopped' = TRUE
    /\ UNCHANGED <<nextUid, pc, clientUp, clientSent, clientSendEvent, serverUp,
                   fmEnabled, classifier, stats, tracked, reportIdx, out, zeroDivs,
                   sendLog, delayLog>>

\* Simulator::Run returns; main() calls monitor->CheckForLostPackets()
RunReturns ==
    /\ pc = "run"
    /\ ~RunLoopGuard
    /\ pc' = "analysis"
    /\ UNCHANGED <<simVars, stats, reportIdx, out, zeroDivs>>

\* monitor->CheckForLostPackets(); stats = monitor->GetFlowStats()
Analysis ==
    /\ pc = "analysis"
    /\ stats' = LostCounted(stats, tracked, now)
    /\ tracked' = tracked \ Expired(tracked, now)
    /\ reportIdx' = 1
    /\ pc' = "report"
    /\ UNCHANGED <<now, queue, nextUid, stopped, clientUp, clientSent, clientSendEvent,
                   serverUp, fmEnabled, classifier, out, zeroDivs, lastFired, sendLog,
                   delayLog>>

----------------------------------------------------------------------------
(* The results loop of main() *)

\* rxPackets * 100.0 / txPackets in IEEE arithmetic, in hundredths of a percent
DeliveryRatio(tx, rx) ==
    IF tx = 0
    THEN [kind |-> IF rx = 0 THEN "nan" ELSE "inf", centi |-> 0]
    ELSE [kind |-> "num", centi |-> (rx * 100 * 100) \div tx]

\* the divisor of the delivery ratio is txPackets, whatever its value
RatioDividesByZero(tx) == tx = 0

\* delaySum.GetSeconds() / rxPackets, in ns
AverageDelay(delaySum, rx) == delaySum \div rx

\* rxBytes * 8.0 / 9.0 / 1000 kbps, in bit/s
Throughput(rxBytes) == (rxBytes * 8) \div ObservationSeconds

ReportLine(f, s) ==
    [flowId |-> f,
     txPackets |-> s.txPackets,
     rxPackets |-> s.rxPackets,
     ratio |-> DeliveryRatio(s.txPackets, s.rxPackets),
     hasDelay |-> s.rxPackets > 0,
     avgDelay |-> IF s.rxPackets > 0 THEN AverageDelay(s.delaySum, s.rxPackets) ELSE 0,
     throughput |-> IF s.rxPackets > 0 THEN Throughput(s.rxBytes) ELSE 0,
     warning |-> ~(s.rxPackets > 0)]

\* one iteration of: for (auto const &flow : stats)
ReportFlow ==
    /\ pc = "report"
    /\ reportIdx \in DOMAIN stats
    /\ out' = Append(out, ReportLine(reportIdx, stats[reportIdx]))
    /\ zeroDivs' = zeroDivs + (IF RatioDividesByZero(stats[reportIdx].txPackets) THEN 1 ELSE 0)
    /\ reportIdx' = reportIdx + 1
    /\ UNCHANGED <<simVars, pc, stats>>

\* Simulator::Destroy(); return 0
Destroy ==
    /\ pc = "report"
    /\ reportIdx \notin DOMAIN stats
    /\ pc' = "done"
    /\ queue' = {}
    /\ UNCHANGED <<now, nextUid, stopped, clientUp, clientSent, clientSendEvent,
                   serverUp, fmEnabled, classifier, stats, tracked, reportIdx, out,
                   zeroDivs, lastFired, sendLog, delayLog>>

----------------------------------------------------------------------------

Next ==
    \/ NodeInitialize
    \/ FlowMonitorStart
    \/ PeriodicCheck
    \/ ApplicationEvent
    \/ ClientSend
    \/ Receive
    \/ SimulatorStop
    \/ RunReturns
    \/ Analysis
    \/ ReportFlow
    \/ Destroy

Spec == Init /\ [][Next]_vars

----------------------------------------------------------------------------
(* The results loop as a function of the flow statistics it is given: the *)
(* statistics are drawn from bounded sets and the loop is applied.         *)

MaxTx == 6
MaxDelayNs == 3

FlowStatsInputs ==
    { [txPackets |-> tx, txBytes |-> tx * (PacketSize + IpUdpHeaderBytes),
       rxPackets |-> rx, rxBytes |-> rx * (PacketSize + IpUdpHeaderBytes),
       delaySum |-> d, lostPackets |-> 0] :
         tx \in 0..MaxTx, rx \in 0..MaxTx, d \in 0..MaxDelayNs }

InitReport ==
    /\ now = SimStopTime
    /\ queue = {}
    /\ nextUid = 6
    /\ stopped = TRUE
    /\ pc = "report"
    /\ clientUp = FALSE
    /\ clientSent = 0
    /\ clientSendEvent = 0
    /\ serverUp = FALSE
    /\ fmEnabled = TRUE
    /\ classifier = <<<<ClientNode, ServerNode>>>>
    /\ \E s \in FlowStatsInputs :
          /\ s.rxPackets <= s.txPackets
          /\ (s.rxPackets = 0 => s.delaySum = 0)
          /\ stats = <<s>>
    /\ tracked = {}
    /\ reportIdx = 1
    /\ out = <<>>
    /\ zeroDivs = 0
    /\ lastFired = NoEvent
    /\ sendLog = <<>>
    /\ delayLog = <<>>

NextReport == ReportFlow \/ Destroy

SpecReport == InitReport /\ [][NextReport]_vars

----------------------------------------------------------------------------
(* Properties *)

BeaconFlow == <<ClientNode, ServerNode>>
EchoFlow == <<ServerNode, ClientNode>>

Reported == pc \in {"report", "done"}

\* an event was executed in this step
Fired == lastFired' # lastFired

\* the events this step added to the queue
NewEvents == queue' \ queue

\* the sum of the delays logged for flow f at positions lo..hi
RECURSIVE SumDelays(_, _, _, _)
SumDelays(log, f, lo, hi) ==
    IF lo > hi THEN 0
    ELSE IF lo = hi THEN (IF log[lo][1] = f THEN log[lo][2] ELSE 0)
    ELSE LET mid == (lo + hi) \div 2
         IN  SumDelays(log, f, lo, mid) + SumDelays(log, f, mid + 1, hi)

\* C1: Scenario A.  When the run has ended and the results are printed, the
\* beacon flow (client node to server node) has txPackets = 90 and
\* rxPackets = 90, and its printed delivery ratio is 100 %.
ScenarioA ==
    pc = "done" =>
        /\ KnownFlow(classifier, ClientNode, ServerNode)
        /\ LET f == FlowId(classifier, ClientNode, ServerNode)
           IN  /\ stats[f].txPackets = 90
               /\ stats[f].rxPackets = 90
               /\ out[f].txPackets = 90
               /\ out[f].rxPackets = 90
               /\ out[f].ratio = [kind |-> "num", centi |-> 100 * 100]

ScenarioAReached ==
    /\ pc = "done"
    /\ Len(out) >= 1
    /\ classifier[1] = BeaconFlow
    /\ out[1].txPackets = MaxPackets

\* C2: the client's first send fires at exactly its start time, every send
\* fires at a time t with start <= t < stop, so none fires at or after the
\* stop time, and by the end of the run a send has fired.
SendWindow ==
    /\ \A i \in DOMAIN sendLog :
          TLe(ClientStart, sendLog[i]) /\ TLt(sendLog[i], ClientStop)
    /\ (Len(sendLog) >= 1 => sendLog[1] = ClientStart)
    /\ (pc # "run" => Len(sendLog) >= 1)
    /\ (lastFired.kind = "ClientSend" => TLt(lastFired.time, ClientStop))

SendWindowReached ==
    /\ pc = "done"
    /\ Len(sendLog) = MaxPackets
    /\ sendLog[1] = ClientStart
    /\ TAdd(sendLog[Len(sendLog)], Interval) = ClientStop

\* C3: conservation.  Once the run has ended and lost packets were checked,
\* every flow has txPackets >= rxPackets and
\* txPackets = rxPackets + lostPackets.
Conservation ==
    Reported =>
        \A f \in DOMAIN stats :
            /\ stats[f].txPackets >= stats[f].rxPackets
            /\ stats[f].txPackets = stats[f].rxPackets + stats[f].lostPackets

ConservationReached ==
    /\ pc = "done"
    /\ Len(stats) = 2
    /\ \A f \in DOMAIN stats : stats[f].txPackets > 0
    /\ TAdd(sendLog[Len(sendLog)], Interval) = SimStopTime

EventOrder ==
    /\ [](pc = "run" =>
             \A e \in queue :
                 \/ TLt(lastFired.time, e.time)
                 \/ (lastFired.time = e.time /\ lastFired.uid < e.uid))
    /\ [][Fired =>
             /\ lastFired' \in queue
             /\ \A e \in queue \ {lastFired'} :
                    \/ TLt(lastFired'.time, e.time)
                    \/ (lastFired'.time = e.time /\ lastFired'.uid < e.uid)
             /\ \/ TLt(lastFired.time, lastFired'.time)
                \/ (lastFired.time = lastFired'.time /\ lastFired.uid < lastFired'.uid)
         ]_vars

EventOrderReached ==
    /\ lastFired.kind = "ClientSend"
    /\ lastFired.time = ClientStart
    /\ serverUp
    /\ \E e \in queue : e.kind = "Receive" /\ TLt(e.time, TAdd(ClientStart, Interval))

\* C7: the run never fires an event later than the stop time, never moves
\* the clock backwards, returns with the clock at the stop time, and the
\* events still pending when it returns are never fired.
RunUntilStop ==
    /\ [](/\ TLe(lastFired.time, SimStopTime)
          /\ TLe(now, SimStopTime)
          /\ (pc # "run" => now = SimStopTime))
    /\ [][ /\ TLe(now, now')
           /\ (Fired => now' = lastFired'.time /\ ~stopped)
           /\ (pc # "run" => ~Fired /\ now' = now)
         ]_vars

RunUntilStopReached ==
    /\ pc = "report"
    /\ now = SimStopTime
    /\ queue # {}
    /\ \A e \in queue : TLe(SimStopTime, e.time)

\* C8 as claimed: delivering a packet never causes a transmission, so the
\* only flow that records transmissions is the beacon flow.
SinkPassive ==
    \A f \in DOMAIN stats : stats[f].txPackets > 0 => classifier[f] = BeaconFlow

\* C8 as amended: every packet delivered to the running echo server causes
\* exactly one transmission back to the client, counted on the reverse
\* flow; a packet delivered to the client causes none; the flows that
\* record transmissions are the beacon flow and the echo flow.
EchoOnly ==
    /\ [](/\ \A f \in DOMAIN classifier : classifier[f] \in {BeaconFlow, EchoFlow}
          /\ DOMAIN stats = DOMAIN classifier
          /\ KnownFlow(classifier, ServerNode, ClientNode) =>
                stats[FlowId(classifier, ServerNode, ClientNode)].txPackets =
                stats[FlowId(classifier, ClientNode, ServerNode)].rxPackets)
    /\ [][ (Fired /\ lastFired'.kind = "Receive") =>
              LET echo == FlowId(classifier, ServerNode, ClientNode)
                  sent(st, f) == IF f \in DOMAIN st THEN st[f].txPackets ELSE 0
              IN  IF lastFired'.node = ServerNode /\ serverUp
                  THEN /\ sent(stats', echo) = sent(stats, echo) + 1
                       /\ \A f \in DOMAIN stats : f # echo => sent(stats', f) = sent(stats, f)
                  ELSE /\ \A f \in DOMAIN stats' : sent(stats', f) = sent(stats, f)
                       /\ NewEvents = {}
         ]_vars

EchoOnlyReached ==
    /\ Len(classifier) = 2
    /\ classifier[2] = EchoFlow
    /\ stats[2].txPackets >= 2
    /\ stats[2].rxPackets >= 2
    /\ lastFired.kind = "Receive"
    /\ lastFired.node = ClientNode

====
